---- MODULE Spec2Model ----
(***************************************************************************)
(* Model of src/src/window.py (ExpensesWindow): the JSON-backed Document,  *)
(* its load/normalise/save cycle and the GTK signal handlers that mutate   *)
(* it.  Texts are sequences of one-character strings so that strip(),      *)
(* replace(), float() and sorted() are computed, not assumed.  List        *)
(* positions are 0-based as in the source; Seq access adds 1.              *)
(***************************************************************************)
EXTENDS Integers, Sequences, FiniteSets, TLC

\* ------------------------------------------------------------------ bounds
\* Most accounts the Document may grow to: the accounts dialog is answered
\* only while it holds fewer.
MaxAccounts == 2
\* Most expenses (over all accounts) the Document may grow to: "Add" is
\* activated only while it holds fewer.
MaxExpenses == 2
\* Most save_data() calls that may fail in one run.
MaxSaveFailures == 1
\* Most times the normalization steps are applied to one Document.
MaxNormalizations == 2

\* ------------------------------------------------------------------- texts
Default == <<"D", "e", "f", "a", "u", "l", "t">>
Cash == <<"C", "a", "s", "h">>
cash == <<"c", "a", "s", "h">>
NaNText == <<"n", "a", "n">>
Digits == {"0", "1", "2", "3", "4", "5", "6", "7", "8", "9"}

\* ord(c) for the characters the model types
CodePoint(c) ==
  CASE c = " " -> 32 [] c = "+" -> 43 [] c = "," -> 44 [] c = "-" -> 45
    [] c = "." -> 46 [] c = "0" -> 48 [] c = "1" -> 49 [] c = "2" -> 50
    [] c = "3" -> 51 [] c = "4" -> 52 [] c = "5" -> 53 [] c = "6" -> 54
    [] c = "7" -> 55 [] c = "8" -> 56 [] c = "9" -> 57 [] c = "B" -> 66
    [] c = "C" -> 67 [] c = "D" -> 68 [] c = "a" -> 97 [] c = "b" -> 98
    [] c = "c" -> 99 [] c = "e" -> 101 [] c = "f" -> 102 [] c = "h" -> 104
    [] c = "l" -> 108 [] c = "n" -> 110 [] c = "s" -> 115 [] c = "t" -> 116
    [] c = "u" -> 117

\* str.__lt__: lexicographic by code point, a proper prefix is smaller
RECURSIVE StrLess(_, _)
StrLess(a, b) ==
  IF b = <<>> THEN FALSE
  ELSE IF a = <<>> THEN TRUE
  ELSE IF Head(a) = Head(b) THEN StrLess(Tail(a), Tail(b))
  ELSE CodePoint(Head(a)) < CodePoint(Head(b))

\* sorted(set of str)
RECURSIVE sorted(_)
sorted(S) ==
  IF S = {} THEN <<>>
  ELSE LET m == CHOOSE x \in S : \A y \in S \ {x} : StrLess(x, y)
       IN <<m>> \o sorted(S \ {m})

RECURSIVE lstrip(_)
lstrip(t) == IF t # <<>> /\ Head(t) = " " THEN lstrip(Tail(t)) ELSE t

RECURSIVE rstrip(_)
rstrip(t) ==
  IF t # <<>> /\ t[Len(t)] = " " THEN rstrip(SubSeq(t, 1, Len(t) - 1)) ELSE t

\* str.strip()
strip(t) == rstrip(lstrip(t))

\* str.replace(',', '.')
replace_comma(t) == [i \in 1..Len(t) |-> IF t[i] = "," THEN "." ELSE t[i]]

\* list.index(x): 0-based position of the first occurrence (x occurs in s)
IndexOf(s, x) == (CHOOSE i \in 1..Len(s) : s[i] = x /\ \A j \in 1..(i - 1) : s[j] # x) - 1

\* x in list
InList(x, s) == \E i \in 1..Len(s) : s[i] = x

\* list.pop(i), result list, i 0-based; a negative i counts from the end
Pop_Last(s, i) == SubSeq(s, 1, Len(s) - 1)
Pop(s, i) ==
  LET k == IF i < 0 THEN Len(s) + i ELSE i
  IN SubSeq(s, 1, k) \o SubSeq(s, k + 2, Len(s))

\* reversed(list)
Reversed(s) == [i \in 1..Len(s) |-> s[Len(s) + 1 - i]]

\* dict[k] = v
DictSet_Only(m, k, v) == [x \in {k} |-> v]
DictSet(m, k, v) == [x \in (DOMAIN m) \cup {k} |-> IF x = k THEN v ELSE m[x]]

\* ----------------------------------------------------------------- amounts
\* A float is [k |-> "num", v |-> hundredths] or [k |-> "nan", v |-> 0].
Num(v) == [k |-> "num", v |-> v]
NaN == [k |-> "nan", v |-> 0]

DigitVal(c) == CodePoint(c) - 48

RECURSIVE DigitsVal(_)
DigitsVal(t) == IF t = <<>> THEN 0 ELSE 10 * DigitsVal(SubSeq(t, 1, Len(t) - 1)) + DigitVal(t[Len(t)])

AllDigits(t) == \A i \in 1..Len(t) : t[i] \in Digits

\* float(text): an optional sign, then "nan" or decimal digits with at most
\* one "."; anything else raises ValueError.  Typed amounts carry at most two
\* fractional digits, so hundredths are exact.
float(t) ==
  LET signed == t # <<>> /\ Head(t) \in {"+", "-"}
      neg == t # <<>> /\ Head(t) = "-"
      body == IF signed THEN Tail(t) ELSE t
      dots == {i \in 1..Len(body) : body[i] = "."}
      whole == IF dots = {} THEN body
               ELSE SubSeq(body, 1, (CHOOSE i \in dots : TRUE) - 1)
      frac == IF dots = {} THEN <<>>
              ELSE SubSeq(body, (CHOOSE i \in dots : TRUE) + 1, Len(body))
      frac2 == IF Len(frac) = 0 THEN <<"0", "0">>
               ELSE IF Len(frac) = 1 THEN frac \o <<"0">>
               ELSE SubSeq(frac, 1, 2)
      mag == 100 * DigitsVal(whole) + DigitsVal(frac2)
  IN IF body = NaNText THEN [ok |-> TRUE, value |-> NaN]
     ELSE IF /\ Cardinality(dots) <= 1
             /\ AllDigits(whole) /\ AllDigits(frac)
             /\ Len(whole) + Len(frac) >= 1
          THEN [ok |-> TRUE, value |-> Num(IF neg THEN 0 - mag ELSE mag)]
          ELSE [ok |-> FALSE, value |-> NaN]

RECURSIVE DigitsOf(_)
DigitsOf(n) ==
  LET d == <<"0", "1", "2", "3", "4", "5", "6", "7", "8", "9">>[(n % 10) + 1]
  IN IF n < 10 THEN <<d>> ELSE DigitsOf(n \div 10) \o <<d>>

\* f"{x:.2f} EUR" (the euro sign is written EUR)
Format2f(a) ==
  IF a.k = "nan" THEN NaNText \o <<" ", "EUR">>
  ELSE LET mag == IF a.v < 0 THEN 0 - a.v ELSE a.v
           f == mag % 100
       IN (IF a.v < 0 THEN <<"-">> ELSE <<>>) \o DigitsOf(mag \div 100) \o <<".">>
          \o (IF f < 10 THEN <<"0">> ELSE <<>>) \o DigitsOf(f) \o <<" ", "EUR">>

\* float addition
FAdd(a, b) == IF a.k = "nan" \/ b.k = "nan" THEN NaN ELSE Num(a.v + b.v)

\* sum(expense['amount'] for expense in expenses); sum() starts from int 0
RECURSIVE SumAmounts(_)
SumAmounts(es) ==
  IF es = <<>> THEN Num(0)
  ELSE FAdd(SumAmounts(SubSeq(es, 1, Len(es) - 1)), es[Len(es)].amount)

\* ---------------------------------------------------------------- Document
Keys == {"accounts", "current_account", "expenses"}

\* self.data as __init__ builds it before load_data()
DefaultData ==
  [accounts |-> <<Default>>, current_account |-> Default, expenses |-> <<>>]

\* ------------------------------------------------------ the persisted file
\* The content of expenses.json as json.load sees it.  kind is one of
\*   "missing"     no file;           "unreadable"  open() raises OSError;
\*   "invalid"     not JSON (json.load raises JSONDecodeError);
\*   "null", "number"  a JSON scalar;
\*   "string"      a JSON string, contains = the key words it has as substrings;
\*   "array"       a JSON array: items are its expense records, contains the
\*                 key words that occur among its elements as strings;
\*   "object"      a JSON object with the members named in fields.
JsonValue(kind) ==
  [kind |-> kind, contains |-> {}, items |-> <<>>, fields |-> {},
   accounts |-> <<>>, current_account |-> <<>>, expenses |-> <<>>]

\* json.dump(self.data, f): every member of the Document is written
JsonDump_DropsCurrent(d) ==
  [kind |-> "object", contains |-> {}, items |-> <<>>,
   fields |-> {"accounts", "expenses"}, accounts |-> d.accounts,
   current_account |-> <<>>, expenses |-> d.expenses]
JsonDump(d) ==
  [JsonValue("object") EXCEPT !.fields = Keys, !.accounts = d.accounts,
     !.current_account = d.current_account, !.expenses = d.expenses]

\* 'key' in loaded_data: TypeError on a scalar, substring test on a string,
\* element test on a list, member test on an object
KeyIn(k, f) == IF f.kind = "object" THEN k \in f.fields ELSE k \in f.contains

\* self.data['expenses']['Default'] = loaded_data, for a list
LegacyExpenses_Ignored(d, f) == d.expenses
LegacyExpenses(d, f) == DictSet(d.expenses, Default, f.items)

\* The body of the try block: the exception it ends with ("none" if it
\* completes) and self.data as the statements executed so far left it.
TryLoad(d, f) ==
  IF f.kind = "unreadable" THEN [exc |-> "OSError", data |-> d]
  ELSE IF f.kind = "invalid" THEN [exc |-> "JSONDecodeError", data |-> d]
  ELSE IF f.kind \in {"null", "number"} THEN [exc |-> "TypeError", data |-> d]
  ELSE
    LET obj == f.kind = "object"
        s1 == IF ~KeyIn("accounts", f) THEN [exc |-> "none", data |-> d]
              ELSE IF obj THEN [exc |-> "none", data |-> [d EXCEPT !.accounts = f.accounts]]
              ELSE [exc |-> "TypeError", data |-> d]
        s2 == IF s1.exc # "none" \/ ~KeyIn("current_account", f) THEN s1
              ELSE IF obj
                THEN [exc |-> "none",
                      data |-> [s1.data EXCEPT !.current_account = f.current_account]]
                ELSE [exc |-> "TypeError", data |-> s1.data]
        s3 == IF s2.exc # "none" THEN s2
              ELSE IF KeyIn("expenses", f)
                THEN IF obj
                  THEN [exc |-> "none", data |-> [s2.data EXCEPT !.expenses = f.expenses]]
                  ELSE [exc |-> "TypeError", data |-> s2.data]
              ELSE IF f.kind = "array"
                THEN [exc |-> "none",
                      data |-> [s2.data EXCEPT !.expenses = LegacyExpenses(s2.data, f)]]
              ELSE s2
    IN s3

\* "except: pass" catches every exception
Swallowed(exc) == TRUE

\* the loop "for account in accounts: if account not in expenses: ... = []"
EnsureExpenseLists_FirstMissing(d) ==
  LET missing == {i \in 1..Len(d.accounts) : d.accounts[i] \notin DOMAIN d.expenses}
      first == CHOOSE i \in missing : \A j \in missing : i <= j
  IN IF missing = {} THEN d
     ELSE [d EXCEPT !.expenses = DictSet(@, d.accounts[first], <<>>)]
EnsureExpenseLists(d) ==
  LET names == {d.accounts[i] : i \in 1..Len(d.accounts)}
      old == d.expenses
  IN [d EXCEPT !.expenses =
        [a \in (DOMAIN old) \cup names |-> IF a \in DOMAIN old THEN old[a] ELSE <<>>]]

\* the two steps after the read; accounts[0] raises IndexError on an empty list
Normalize(d) ==
  IF InList(d.current_account, d.accounts)
    THEN [raised |-> FALSE, data |-> EnsureExpenseLists(d)]
  ELSE IF d.accounts = <<>> THEN [raised |-> TRUE, data |-> d]
  ELSE [raised |-> FALSE,
        data |-> EnsureExpenseLists([d EXCEPT !.current_account = d.accounts[1]])]

\* load_data(): [raised, data]; raised means an exception left load_data
load_data(d, f) ==
  IF f.kind = "missing" THEN Normalize(d)
  ELSE LET t == TryLoad(d, f)
       IN IF t.exc = "none" \/ Swallowed(t.exc) THEN Normalize(t.data)
          ELSE [raised |-> TRUE, data |-> t.data]

\* ---------------------------------------------------------------- the state
VARIABLES
  data,          \* self.data: [accounts, current_account, expenses]
  file,          \* content of expenses.json
  payee_store,   \* Gtk.ListStore of the autocomplete
  account_list,  \* Gtk.StringList behind the dropdown
  selected,      \* account_dropdown.get_selected(), 0-based
  rows,          \* rows of expense_list, top first
  total_label,   \* text of total_label
  running,       \* FALSE once an exception has left __init__
  failures,      \* save_data() calls that have failed so far
  last           \* the handler that ran last: what the user gave it and
                 \* what it left in the entries

vars == <<data, file, payee_store, account_list, selected, rows, total_label,
          running, failures, last>>

\* The window as one value, so that a handler is the composition of the calls
\* it makes.  saves counts the save_data() calls of the running handler and
\* written lists what became of each, notice is set when it presents the
\* "Invalid Amount" dialog.  The two
\* entries hold what the user typed before "Add": no other handler reads
\* them, so their text is an input of on_add_expense and not kept between
\* handlers.
World ==
  [data |-> data, file |-> file, payee_store |-> payee_store,
   account_list |-> account_list, selected |-> selected, rows |-> rows,
   total_label |-> total_label, amount_entry |-> <<>>,
   payee_entry |-> <<>>, failures |-> failures, saves |-> 0,
   written |-> <<>>, notice |-> FALSE]

\* save_data(): io[n] is what happens to the n-th write of the handler:
\* "ok"; "open_failed" (makedirs or open raises, the file is untouched);
\* "write_failed" (open truncated the file, then the write raises).
save_data_Skipped(w, io) ==
  [w EXCEPT !.saves = @ + 1, !.written = Append(@, io[w.saves + 1])]
save_data_StaysBroken(w, io) ==
  LET outcome == io[w.saves + 1]
      f == IF outcome = "ok" /\ w.file.kind # "invalid" THEN JsonDump(w.data)
           ELSE IF outcome = "write_failed" THEN JsonValue("invalid")
           ELSE w.file
  IN [w EXCEPT !.file = f, !.saves = @ + 1, !.written = Append(@, outcome),
               !.failures = IF outcome = "ok" THEN @ ELSE @ + 1]
save_data(w, io) ==
  LET outcome == io[w.saves + 1]
      f == IF outcome = "ok" THEN JsonDump(w.data)
           ELSE IF outcome = "write_failed" THEN JsonValue("invalid")
           ELSE w.file
  IN [w EXCEPT !.file = f, !.saves = @ + 1, !.written = Append(@, outcome),
               !.failures = IF outcome = "ok" THEN @ ELSE @ + 1]

\* get_current_expenses(): the world (the entry is created when absent) and
\* the list
get_current_expenses(w) ==
  LET account == w.data.current_account
      w1 == IF account \in DOMAIN w.data.expenses THEN w
            ELSE [w EXCEPT !.data.expenses = DictSet(@, account, <<>>)]
  IN [world |-> w1, expenses |-> w1.data.expenses[account]]

\* create_expense_row(expense, index)
create_expense_row(expense, index) ==
  [title |-> expense.payee, subtitle |-> expense.date,
   amount_label |-> Format2f(expense.amount), index |-> index]

\* the storage index update_expense_list binds to the row at position i
RowIndex_Position(n, i) == i
RowIndex(n, i) == n - 1 - i

\* update_expense_list()
update_expense_list(w) ==
  LET g == get_current_expenses(w)
      expenses == g.expenses
      rev == Reversed(expenses)
  IN [g.world EXCEPT !.rows =
        [j \in 1..Len(rev) |-> create_expense_row(rev[j], RowIndex(Len(expenses), j - 1))]]

\* update_total()
update_total_FirstAccount(w) ==
  LET g == get_current_expenses(w)
      first == g.world.data.expenses[g.world.data.accounts[1]]
  IN [g.world EXCEPT !.total_label = Format2f(SumAmounts(first))]
update_total(w) ==
  LET g == get_current_expenses(w)
  IN [g.world EXCEPT !.total_label = Format2f(SumAmounts(g.expenses))]

\* expense['payee'] raises TypeError when an element of a list is no object
PayeeRaises(d) ==
  \E a \in DOMAIN d.expenses :
    \E i \in 1..Len(d.expenses[a]) : "payee" \notin DOMAIN d.expenses[a][i]

\* update_payee_suggestions()
update_payee_suggestions(w) ==
  LET exps == w.data.expenses
      payees == {exps[a][i].payee : <<a, i>> \in
                   UNION {{<<b, j>> : j \in 1..Len(exps[b])} : b \in DOMAIN exps}}
  IN [w EXCEPT !.payee_store = sorted(payees)]

\* setup_account_dropdown(); notify::selected is not connected yet
setup_account_dropdown_SelectsFirst(w) ==
  [w EXCEPT !.account_list = w.data.accounts, !.selected = 0]
setup_account_dropdown(w) ==
  [w EXCEPT !.account_list = w.data.accounts,
            !.selected = IF InList(w.data.current_account, w.data.accounts)
                           THEN IndexOf(w.data.accounts, w.data.current_account)
                           ELSE 0]

\* Gtk.INVALID_LIST_POSITION: G_MAXUINT, all 32 bits set, which is no
\* position of any list
INVALID_LIST_POSITION == -1

\* on_account_changed(): runs on notify::selected
on_account_changed_NoSave(w, io) ==
  IF w.selected = INVALID_LIST_POSITION THEN w
  ELSE
    LET w1 == [w EXCEPT !.data.current_account = w.data.accounts[w.selected + 1]]
    IN update_total(update_expense_list(w1))
on_account_changed(w, io) ==
  IF w.selected = INVALID_LIST_POSITION THEN w
  ELSE
    LET w1 == [w EXCEPT !.data.current_account = w.data.accounts[w.selected + 1]]
    IN update_total(update_expense_list(save_data(w1, io)))

\* account_dropdown.set_selected(i): notify::selected fires when the position
\* changes, and the handler runs before set_selected returns
set_selected_KeepsCurrent(w, i, io) == [w EXCEPT !.selected = i]
set_selected(w, i, io) ==
  IF i = w.selected THEN w ELSE on_account_changed([w EXCEPT !.selected = i], io)

\* the test that lets on_add_account_response add the account
AccountAccepted_NoDuplicateTest(account_name, accounts) == account_name # <<>>
AccountAccepted(account_name, accounts) ==
  account_name # <<>> /\ ~InList(account_name, accounts)

\* on_add_account_response(dialog, response, entry)
on_add_account_response(w, response, text, io) ==
  IF response # "add" THEN w
  ELSE
    LET account_name == strip(text)
    IN IF ~AccountAccepted(account_name, w.data.accounts) THEN w
       ELSE
         LET w1 == [w EXCEPT !.data.accounts = Append(@, account_name),
                             !.data.expenses = DictSet(@, account_name, <<>>),
                             !.account_list = Append(@, account_name)]
             w2 == save_data(w1, io)
             index == IndexOf(w2.data.accounts, account_name)
         IN set_selected(w2, index, io)

\* float(amount_text.replace(',', '.'))
ParseAmount(amount_text) == float(replace_comma(amount_text))

\* on_add_expense(); now is datetime.now().strftime('%Y-%m-%d %H:%M')
on_add_expense_Prepends(w, amount_typed, payee_typed, now, io) ==
  LET amount_text == strip(amount_typed)
      payee_text == strip(payee_typed)
      typed == [w EXCEPT !.amount_entry = amount_typed, !.payee_entry = payee_typed]
      parsed == ParseAmount(amount_text)
  IN IF amount_text = <<>> \/ payee_text = <<>> THEN typed
     ELSE IF ~parsed.ok THEN [typed EXCEPT !.notice = TRUE]
     ELSE
       LET expense == [amount |-> parsed.value, payee |-> payee_text, date |-> now]
           g == get_current_expenses(typed)
           w1 == [g.world EXCEPT
                    !.data.expenses[g.world.data.current_account] = <<expense>> \o @]
           w2 == save_data(w1, io)
           w3 == update_total(update_expense_list(update_payee_suggestions(w2)))
       IN [w3 EXCEPT !.amount_entry = <<>>, !.payee_entry = <<>>]
on_add_expense(w, amount_typed, payee_typed, now, io) ==
  LET amount_text == strip(amount_typed)
      payee_text == strip(payee_typed)
      typed == [w EXCEPT !.amount_entry = amount_typed, !.payee_entry = payee_typed]
      parsed == ParseAmount(amount_text)
  IN IF amount_text = <<>> \/ payee_text = <<>> THEN typed
     ELSE IF ~parsed.ok THEN [typed EXCEPT !.notice = TRUE]
     ELSE
       LET expense == [amount |-> parsed.value, payee |-> payee_text, date |-> now]
           g == get_current_expenses(typed)
           w1 == [g.world EXCEPT
                    !.data.expenses[g.world.data.current_account] = Append(@, expense)]
           w2 == save_data(w1, io)
           w3 == update_total(update_expense_list(update_payee_suggestions(w2)))
       IN [w3 EXCEPT !.amount_entry = <<>>, !.payee_entry = <<>>]

\* on_delete_expense(button, index)
on_delete_expense_AnyListIndex(w, index, io) ==
  LET g == get_current_expenses(w)
  IN IF ~(0 - Len(g.expenses) <= index /\ index < Len(g.expenses)) THEN g.world
     ELSE
       LET w1 == [g.world EXCEPT
                    !.data.expenses[g.world.data.current_account] = Pop(@, index)]
       IN update_payee_suggestions(update_total(update_expense_list(save_data(w1, io))))
on_delete_expense(w, index, io) ==
  LET g == get_current_expenses(w)
  IN IF ~(0 <= index /\ index < Len(g.expenses)) THEN g.world
     ELSE
       LET w1 == [g.world EXCEPT
                    !.data.expenses[g.world.data.current_account] = Pop(@, index)]
       IN update_payee_suggestions(update_total(update_expense_list(save_data(w1, io))))

\* __init__(): the window over the file f, and the exception that leaves
\* __init__ ("" if none): IndexError from load_data, TypeError from
\* setup_payee_autocomplete
Construct(f) ==
  LET l == load_data(DefaultData, f)
      w0 == [data |-> l.data, file |-> f, payee_store |-> <<>>,
             account_list |-> <<>>, selected |-> 0, rows |-> <<>>,
             total_label |-> <<>>, amount_entry |-> <<>>, payee_entry |-> <<>>,
             failures |-> 0, saves |-> 0, written |-> <<>>, notice |-> FALSE]
  IN IF l.raised THEN [error |-> "IndexError", world |-> w0]
     ELSE IF PayeeRaises(l.data) THEN [error |-> "TypeError", world |-> w0]
     ELSE [error |-> "",
           world |-> update_total(update_expense_list(
                       setup_account_dropdown(update_payee_suggestions(w0))))]

\* ------------------------------------------------------------------ inputs
\* what datetime.now() may format to
Clock == {"2026-01-15 09:31"}

\* what the user may type into amount_entry, payee_entry and the dialog entry
\* (amount text, payee text) pairs
Typed ==
  {<<<<"1", ",", "5">>, <<"B">>>>, <<<<" ", "1", ".", "5">>, <<"B", " ">>>>,
   <<NaNText, <<" ", "a", " ">>>>, <<<<"a", "b", "c">>, <<"B">>>>,
   <<<<" ">>, <<"B">>>>, <<<<"1", ",", "5">>, <<" ">>>>}
\* (response, dialog entry text) pairs
Answers ==
  {<<"add", cash>>, <<"add", <<" ">> \o Cash \o <<" ">>>>, <<"add", <<" ">>>>,
   <<"cancel", cash>>}
Outcomes == {"ok", "open_failed", "write_failed"}

\* expense records a file may hold
E1 == [amount |-> Num(150), payee |-> <<"B">>, date |-> "2026-01-15 09:31"]
E2 == [amount |-> Num(0 - 200), payee |-> <<"a">>, date |-> "2026-01-14 18:05"]

FileAccounts == {<<>>, <<Cash>>, <<Cash, Cash>>, <<Default, Cash>>}
FileCurrent == {Default, Cash}
FileExpenses ==
  {[a \in {Default, Cash} |-> IF a = Default THEN <<E1, E2>> ELSE <<E2>>],
   [a \in {cash} |-> <<E1>>]}

\* objects with any of the three members; an absent member carries no value
ObjectFiles ==
  {[JsonValue("object") EXCEPT
      !.fields = fs,
      !.accounts = IF "accounts" \in fs THEN ac ELSE <<>>,
      !.current_account = IF "current_account" \in fs THEN cu ELSE <<>>,
      !.expenses = IF "expenses" \in fs THEN ex ELSE <<>>] :
     fs \in SUBSET Keys, ac \in FileAccounts, cu \in FileCurrent, ex \in FileExpenses}

\* an array element that is a JSON number
JsonNumber == [json |-> "number"]

LegacyFiles ==
  {[JsonValue("array") EXCEPT !.items = es] :
     es \in {<<>>, <<E2, E1>>, <<JsonNumber>>, <<E1, JsonNumber>>}}

OtherFiles ==
  {JsonValue("missing"), JsonValue("unreadable"), JsonValue("invalid"),
   JsonValue("null"), JsonValue("number")}
  \cup {[JsonValue(k) EXCEPT !.contains = c] :
          k \in {"string", "array"}, c \in {{"accounts"}, {"current_account"}, {"expenses"}}}
  \cup {JsonValue("string")}

Files == ObjectFiles \cup LegacyFiles \cup OtherFiles

\* ---------------------------------------------------------------- behaviour
Handled(op, text, text2, pos, response, w, error) ==
  [op |-> op, text |-> text, text2 |-> text2, pos |-> pos, response |-> response,
   saves |-> w.saves, written |-> w.written, notice |-> w.notice, error |-> error,
   amount_entry |-> w.amount_entry, payee_entry |-> w.payee_entry]

Becomes(w) ==
  /\ data' = w.data
  /\ file' = w.file
  /\ payee_store' = w.payee_store
  /\ account_list' = w.account_list
  /\ selected' = w.selected
  /\ rows' = w.rows
  /\ total_label' = w.total_label
  /\ failures' = w.failures

\* what the n writes of a handler may meet, within the failure budget
IO(n) ==
  {io \in [1..n -> Outcomes] :
     failures + Cardinality({i \in 1..n : io[i] # "ok"}) <= MaxSaveFailures}

TotalExpenses ==
  Cardinality(UNION {{<<a, i>> : i \in 1..Len(data.expenses[a])} : a \in DOMAIN data.expenses})

Init ==
  \E f \in Files :
    LET c == Construct(f)
        w == c.world
    IN /\ data = w.data
       /\ file = w.file
       /\ payee_store = w.payee_store
       /\ account_list = w.account_list
       /\ selected = w.selected
       /\ rows = w.rows
       /\ total_label = w.total_label
       /\ failures = w.failures
       /\ running = (c.error = "")
       /\ last = Handled("startup", <<>>, <<>>, 0, "", w, c.error)

\* the user types an amount and a payee and activates "Add"
AddExpense ==
  /\ running
  /\ TotalExpenses < MaxExpenses
  /\ \E t \in Typed, now \in Clock, io \in IO(1) :
       \E w \in {on_add_expense(World, t[1], t[2], now, io)} :
         Becomes(w) /\ last' = Handled("add", t[1], t[2], 0, "", w, "")
  /\ UNCHANGED running

\* the user clicks the delete button of the row at display position d
DeleteExpense ==
  /\ running
  /\ \E d \in 0..(Len(rows) - 1), io \in IO(1) :
       \E w \in {on_delete_expense(World, rows[d + 1].index, io)} :
         Becomes(w) /\ last' = Handled("delete", <<>>, <<>>, d, "", w, "")
  /\ UNCHANGED running

\* the user picks another position i of the dropdown
SelectAccount ==
  /\ running
  /\ \E i \in (0..(Len(account_list) - 1)) \ {selected}, io \in IO(1) :
       \E w \in {set_selected(World, i, io)} :
         Becomes(w) /\ last' = Handled("select", <<>>, <<>>, i, "", w, "")
  /\ UNCHANGED running

\* the user answers the "Manage Accounts" dialog
CreateAccount ==
  /\ running
  /\ Len(data.accounts) < MaxAccounts
  /\ \E a \in Answers, io \in IO(2) :
       \E w \in {on_add_account_response(World, a[1], a[2], io)} :
         Becomes(w) /\ last' = Handled("create", a[2], <<>>, 0, a[1], w, "")
  /\ UNCHANGED running

Next == AddExpense \/ DeleteExpense \/ SelectAccount \/ CreateAccount

Spec == Init /\ [][Next]_vars

\* on_delete_expense called with an index that no row carries: below 0, or
\* at or past the end of the current account's list
DeleteAtIndex ==
  /\ running
  /\ \E index \in {0 - 2, 0 - 1, Len(data.expenses[data.current_account])},
        io \in IO(1) :
       \E w \in {on_delete_expense(World, index, io)} :
         Becomes(w) /\ last' = Handled("delete_at", <<>>, <<>>, index, "", w, "")
  /\ UNCHANGED running

NextDirect == Next \/ DeleteAtIndex

\* the window with its handlers also callable directly
SpecDirect == Init /\ [][NextDirect]_vars

\* ------------------------------------------------- normalization on its own
\* Documents as the read may leave them before the two normalization steps:
\* any non-empty accounts list, any current_account, lists for any of the
\* names
RawNames == {Default, Cash, cash}
RawAccounts ==
  {<<a>> : a \in RawNames} \cup {<<a, b>> : a \in RawNames, b \in RawNames}
RawExpenses ==
  {[a \in ks |-> IF a = Cash THEN <<E2>> ELSE <<>>] : ks \in SUBSET RawNames}
RawDocuments ==
  [accounts : RawAccounts, current_account : RawNames, expenses : RawExpenses]

\* no window: only self.data and how often it was normalized
InitRaw ==
  /\ data \in RawDocuments
  /\ file = JsonValue("missing")
  /\ payee_store = <<>> /\ account_list = <<>> /\ selected = 0
  /\ rows = <<>> /\ total_label = <<>> /\ running = FALSE /\ failures = 0
  /\ last = [op |-> "read", applied |-> 0, raw |-> data]

\* lines 187-194 applied to self.data once more
NormalizeStep ==
  /\ last.applied < MaxNormalizations
  /\ \E n \in {Normalize(data)} :
       /\ ~n.raised
       /\ data' = n.data
  /\ last' = [last EXCEPT !.op = "normalize", !.applied = @ + 1]
  /\ UNCHANGED <<file, payee_store, account_list, selected, rows, total_label,
                 running, failures>>

NextNormalize == NormalizeStep

SpecNormalize == InitRaw /\ [][NextNormalize]_vars

\* ------------------------------------------------------------------ claims
NoDuplicates(s) == \A i, j \in 1..Len(s) : s[i] = s[j] => i = j
Count(x, s) == Cardinality({i \in 1..Len(s) : s[i] = x})
IsExpense(e) == DOMAIN e = {"amount", "payee", "date"}

\* the Document of a process that found nothing to load
NormalizedDefault ==
  [accounts |-> <<Default>>, current_account |-> Default,
   expenses |-> [a \in {Default} |-> <<>>]]

\* a decimal numeral: an optional sign, digits, at most one "." among them
DenotesReal(t) ==
  LET body == IF t # <<>> /\ Head(t) \in {"+", "-"} THEN Tail(t) ELSE t
  IN /\ \A i \in 1..Len(body) : body[i] \in Digits \cup {"."}
     /\ Cardinality({i \in 1..Len(body) : body[i] = "."}) <= 1
     /\ \E i \in 1..Len(body) : body[i] \in Digits

\* the list es without its element at 0-based index k
Without(es, k) == [i \in 1..(Len(es) - 1) |-> IF i <= k THEN es[i] ELSE es[i + 1]]

\* C1: in every state of a running window, current_account is in accounts,
\* every account has an expense list and accounts has no duplicate names.
C1_DocumentInvariants ==
  running =>
    /\ InList(data.current_account, data.accounts)
    /\ \A i \in 1..Len(data.accounts) : data.accounts[i] \in DOMAIN data.expenses
    /\ NoDuplicates(data.accounts)

\* the account-creation handler added the trimmed dialog text as an account
CreatedIn(l, accounts) ==
  /\ l.op = "create" /\ l.response = "add"
  /\ strip(l.text) # <<>> /\ ~InList(strip(l.text), accounts)

\* C2 as claimed: a successful account creation leaves current_account as it
\* was before the handler.
C2_CreateKeepsCurrent ==
  [][CreatedIn(last', data.accounts) => data'.current_account = data.current_account]_vars

\* C2 as amended: a successful account creation appends the trimmed name to
\* accounts, gives it an empty expense list and makes it the current account.
C2_CreateSelectsNew ==
  [][CreatedIn(last', data.accounts) =>
       /\ data'.accounts = Append(data.accounts, strip(last'.text))
       /\ DOMAIN data'.expenses = (DOMAIN data.expenses) \cup {strip(last'.text)}
       /\ data'.expenses[strip(last'.text)] = <<>>
       /\ \A a \in (DOMAIN data.expenses) \ {strip(last'.text)} :
            data'.expenses[a] = data.expenses[a]
       /\ data'.current_account = strip(last'.text)]_vars

C2_Witness ==
  /\ running /\ last.op = "create" /\ last.saves = 2
  /\ data.current_account = cash
  /\ data.accounts = <<Cash, cash>>

\* C3: an account creation whose trimmed name is empty or already in accounts
\* changes neither the Document nor the file and saves nothing; a name that is
\* created occurs exactly once afterwards, a name that was present occurs as
\* often as before.
C3_CreateRejected ==
  [][(last'.op = "create" /\ last'.response = "add") =>
       LET name == strip(last'.text)
       IN /\ (name = <<>> \/ InList(name, data.accounts)) =>
               (data' = data /\ file' = file /\ last'.saves = 0)
          /\ name # <<>> =>
               Count(name, data'.accounts) =
                 IF Count(name, data.accounts) = 0 THEN 1 ELSE Count(name, data.accounts)]_vars

C3_Witness ==
  /\ running /\ last.op = "create" /\ last.response = "add" /\ last.saves = 0
  /\ strip(last.text) = Cash /\ last.text # Cash
  /\ Count(Cash, data.accounts) = 1 /\ Count(cash, data.accounts) = 0

\* C4: whatever the file holds, load_data() raises nothing and leaves a
\* Document whose accounts is not empty, whose current_account is in accounts
\* and whose accounts all have an expense list.
C4_LoadNeverRaises ==
  last.op = "startup" =>
    /\ last.error # "IndexError"
    /\ data.accounts # <<>>
    /\ InList(data.current_account, data.accounts)
    /\ \A i \in 1..Len(data.accounts) : data.accounts[i] \in DOMAIN data.expenses

\* the file holds an array of expense records
IsLegacyArray(f) ==
  /\ f.kind = "array" /\ f.contains = {}
  /\ \A i \in 1..Len(f.items) : IsExpense(f.items[i])

\* C5: a file that is missing, unreadable, or holds neither an object nor an
\* array of expense records loads as exactly the normalized default Document.
C5_NoPartialMerge ==
  (last.op = "startup" /\ file.kind # "object" /\ ~IsLegacyArray(file)) =>
    (running /\ data = NormalizedDefault)

\* C6: a file holding an array of expense records loads as the single account
\* "Default", current, whose expense list is that array.
C6_LegacyLoad ==
  (last.op = "startup" /\ IsLegacyArray(file)) =>
    /\ running
    /\ data.accounts = <<Default>>
    /\ data.current_account = Default
    /\ DOMAIN data.expenses = {Default}
    /\ data.expenses[Default] = file.items

C6_Witness ==
  /\ last.op = "startup" /\ IsLegacyArray(file) /\ file.items = <<E2, E1>>
  /\ running /\ Len(rows) = 2

\* C7: what load_data() of a fresh process reads back from a successful
\* save_data() of a reachable Document is that Document.
C7_RoundTrip ==
  running =>
    LET r == load_data(DefaultData, JsonDump(data))
    IN ~r.raised /\ r.data = data

C7_Witness ==
  /\ running /\ last.op = "add" /\ last.saves = 1 /\ file = JsonDump(data)
  /\ Len(data.accounts) = 2 /\ data.current_account = data.accounts[2]
  /\ Len(data.expenses[data.current_account]) = 2

\* C8: an add whose trimmed amount or payee is empty, or whose amount is no
\* decimal numeral once "," is read as ".", changes neither the Document nor
\* the file and saves nothing; in the last case a notice is shown and the
\* entries keep their text.
C8_RejectedAddChangesNothing ==
  [][last'.op = "add" =>
       LET amount_text == strip(last'.text)
           payee_text == strip(last'.text2)
           empty == amount_text = <<>> \/ payee_text = <<>>
           invalid == ~empty /\ ~DenotesReal(replace_comma(amount_text))
       IN /\ (empty \/ invalid) => (data' = data /\ file' = file /\ last'.saves = 0)
          /\ empty => ~last'.notice
          /\ invalid => /\ last'.notice
                        /\ last'.amount_entry = last'.text
                        /\ last'.payee_entry = last'.text2]_vars

\* C9: the rows of a running window are the current account's list newest
\* first, the row at display position d carrying storage index length - 1 - d,
\* which is within the list and is the expense the row shows.
C9_RowsMirrorList ==
  running =>
    LET es == data.expenses[data.current_account]
        n == Len(es)
    IN /\ Len(rows) = n
       /\ \A d \in 0..(n - 1) :
            /\ rows[d + 1].index = n - 1 - d
            /\ 0 <= rows[d + 1].index /\ rows[d + 1].index < n
            /\ rows[d + 1].title = es[rows[d + 1].index + 1].payee
            /\ rows[d + 1].subtitle = es[rows[d + 1].index + 1].date
            /\ rows[d + 1].amount_label = Format2f(es[rows[d + 1].index + 1].amount)
            /\ rows[d + 1].title = es[n - d].payee
            /\ rows[d + 1].subtitle = es[n - d].date

C9_Witness ==
  /\ running /\ last.op = "add" /\ last.saves = 1
  /\ Len(rows) = 2 /\ rows[1].title # rows[2].title
  /\ rows[1].index = 1 /\ rows[2].index = 0

\* C10: deleting the row at display position d removes exactly the element at
\* storage index length - 1 - d of the current account's list; the other
\* lists, accounts and current_account stay as they were.
C10_DeleteByDisplayPosition ==
  [][last'.op = "delete" =>
       LET cur == data.current_account
           es == data.expenses[cur]
           d == last'.pos
       IN (0 <= d /\ d < Len(es)) =>
            /\ data'.expenses[cur] = Without(es, Len(es) - 1 - d)
            /\ DOMAIN data'.expenses = DOMAIN data.expenses
            /\ \A a \in (DOMAIN data.expenses) \ {cur} : data'.expenses[a] = data.expenses[a]
            /\ data'.accounts = data.accounts
            /\ data'.current_account = cur]_vars

C10_Witness ==
  /\ running /\ last.op = "delete" /\ last.pos = 1 /\ last.saves = 1
  /\ Len(data.expenses[data.current_account]) = 1
  /\ \E a \in DOMAIN data.expenses : a # data.current_account /\ data.expenses[a] # <<>>

\* C11: on_delete_expense with an index below 0 or not below the length of the
\* current account's list removes nothing, leaves the Document, the file and
\* the views as they were and saves nothing.
C11_DeleteOutOfRangeNoOp ==
  [][last'.op = "delete_at" =>
       LET n == Len(data.expenses[data.current_account])
       IN ~(0 <= last'.pos /\ last'.pos < n) =>
            /\ data' = data /\ file' = file
            /\ last'.saves = 0 /\ failures' = failures
            /\ rows' = rows /\ total_label' = total_label
            /\ payee_store' = payee_store]_vars

C11_Witness ==
  /\ running /\ last.op = "delete_at" /\ last.pos = 0 - 1 /\ last.saves = 0
  /\ Len(data.expenses[data.current_account]) = 2

\* the payee of every expense of every entry of the expenses mapping
AllPayees ==
  UNION {{data.expenses[a][i].payee : i \in 1..Len(data.expenses[a])} :
           a \in DOMAIN data.expenses}

\* s[1] < s[2] < ... by str.__lt__
Ascending(s) == \A i \in 1..(Len(s) - 1) : StrLess(s[i], s[i + 1])

\* C12: in every state of a running window the suggestion store lists exactly
\* the payees of the expenses of all accounts, each once, in ascending order.
C12_SuggestionsMatchPayees ==
  running =>
    /\ {payee_store[i] : i \in 1..Len(payee_store)} = AllPayees
    /\ Ascending(payee_store)

\* C13: in every state of a running window the total shown is the sum of the
\* amounts of the current account's list, 0.00 for an empty list.
C13_TotalIsCurrentSum ==
  running =>
    /\ total_label = Format2f(SumAmounts(data.expenses[data.current_account]))
    /\ data.expenses[data.current_account] = <<>> =>
         total_label = <<"0", ".", "0", "0", " ", "EUR">>

C13_Witness ==
  /\ running /\ last.op = "select"
  /\ total_label = <<"-", "2", ".", "0", "0", " ", "EUR">>
  /\ \E a \in DOMAIN data.expenses :
       /\ a # data.current_account
       /\ SumAmounts(data.expenses[a]) = Num(0 - 50)

\* C14: normalizing a Document with a non-empty accounts list that has been
\* normalized before changes nothing.
C14_NormalizeIdempotent ==
  [][(last'.op = "normalize" /\ last.applied >= 1) => data' = data]_vars

C14_Witness ==
  /\ last.op = "normalize" /\ last.applied = 2
  /\ data.current_account # last.raw.current_account
  /\ data.current_account = data.accounts[1]
  /\ Cardinality(DOMAIN data.expenses) = Cardinality(DOMAIN last.raw.expenses) + 2

\* C15: choosing the account at a position of the dropdown makes that account
\* current and saves once (the file then holds the Document when the write
\* succeeds); accounts, the expenses mapping with all its lists and the
\* suggestion store stay as they were.
C15_SelectOnlySwitches ==
  [][last'.op = "select" =>
       /\ data'.current_account = data.accounts[last'.pos + 1]
       /\ last'.saves = 1
       /\ last'.written = <<"ok">> => file' = JsonDump(data')
       /\ data'.accounts = data.accounts
       /\ DOMAIN data'.expenses = DOMAIN data.expenses
       /\ \A a \in DOMAIN data.expenses : data'.expenses[a] = data.expenses[a]
       /\ payee_store' = payee_store]_vars

C15_Witness ==
  /\ running /\ last.op = "select" /\ last.written = <<"ok">>
  /\ file = JsonDump(data)
  /\ data.current_account = data.accounts[2]
  /\ \A a \in DOMAIN data.expenses : data.expenses[a] # <<>>
  /\ Len(payee_store) = 2

\* the value of a decimal numeral in hundredths (two fractional digits at most)
Hundredths(t) ==
  LET neg == Head(t) = "-"
      body == IF Head(t) \in {"+", "-"} THEN Tail(t) ELSE t
      dot == {i \in 1..Len(body) : body[i] = "."}
      at == IF dot = {} THEN Len(body) + 1 ELSE CHOOSE i \in dot : TRUE
      padded == SubSeq(body, at + 1, Len(body)) \o <<"0", "0">>
      mag == 100 * DigitsVal(SubSeq(body, 1, at - 1)) + DigitsVal(SubSeq(padded, 1, 2))
  IN IF neg THEN 0 - mag ELSE mag

\* C16: an add that goes through appends one record to the end of the list of
\* the account current at the call: the amount typed, the payee without its
\* surrounding blanks and the time of the call; the list as it was is a
\* prefix of the new one, and accounts, current_account and the other lists
\* are unchanged.
C16_AddAppendsOne ==
  [][(last'.op = "add" /\ last'.saves > 0) =>
       LET cur == data.current_account
           old == data.expenses[cur]
           new == data'.expenses[cur]
           typed == replace_comma(strip(last'.text))
       IN /\ Len(new) = Len(old) + 1
          /\ SubSeq(new, 1, Len(old)) = old
          /\ DenotesReal(typed) => new[Len(new)].amount = Num(Hundredths(typed))
          /\ new[Len(new)].payee = strip(last'.text2)
          /\ new[Len(new)].date \in Clock
          /\ data'.accounts = data.accounts
          /\ data'.current_account = cur
          /\ DOMAIN data'.expenses = DOMAIN data.expenses
          /\ \A a \in (DOMAIN data.expenses) \ {cur} :
               data'.expenses[a] = data.expenses[a]]_vars

C16_Witness ==
  /\ running /\ last.op = "add" /\ last.saves = 1
  /\ last.text = <<" ", "1", ".", "5">> /\ last.text2 = <<"B", " ">>
  /\ Len(data.accounts) = 2 /\ data.current_account = data.accounts[2]
  /\ data.expenses[data.current_account] = <<E2, E1>>

\* every write of the handler that ran last succeeded
WritesSucceeded(l) == \A i \in 1..Len(l.written) : l.written[i] = "ok"

\* C17: when a handler has changed the Document and none of its writes
\* failed, the file holds the Document the handler leaves.
C17_SavedAfterMutation ==
  [][(data' # data /\ WritesSucceeded(last')) => file' = JsonDump(data')]_vars

C17_Witness ==
  /\ running /\ failures = 0
  /\ last.op = "create" /\ last.written = <<"ok", "ok">>
  /\ file.kind = "object" /\ file.accounts = <<Default, cash>>
  /\ file.current_account = cash
  /\ file.expenses = data.expenses /\ data.expenses[Default] # <<>>

\* the views show the Document d
ViewsShow(d, rs, total, accs) ==
  LET es == d.expenses[d.current_account]
  IN /\ Len(rs) = Len(es)
     /\ \A i \in 1..Len(es) :
          /\ rs[i].title = es[Len(es) + 1 - i].payee
          /\ rs[i].amount_label = Format2f(es[Len(es) + 1 - i].amount)
     /\ total = Format2f(SumAmounts(es))
     /\ accs = d.accounts

\* C18: a handler one of whose writes failed still completes, keeps its
\* change of the Document and shows it in the views; and whenever the last
\* write of a handler succeeded, the file holds the whole Document, whatever
\* writes failed before.
C18_FailedSaveKeepsMutation ==
  [][/\ (last'.written # <<>> /\ ~WritesSucceeded(last')) =>
          /\ running' /\ last'.error = ""
          /\ last'.op = "add" =>
               Len(data'.expenses[data.current_account]) =
                 Len(data.expenses[data.current_account]) + 1
          /\ last'.op = "delete" =>
               Len(data'.expenses[data.current_account]) =
                 Len(data.expenses[data.current_account]) - 1
          /\ last'.op = "select" =>
               data'.current_account = data.accounts[last'.pos + 1]
          /\ last'.op = "create" =>
               /\ data'.accounts = Append(data.accounts, strip(last'.text))
               /\ data'.current_account = strip(last'.text)
          /\ ViewsShow(data', rows', total_label', account_list')
     /\ (last'.written # <<>> /\ last'.written[Len(last'.written)] = "ok") =>
          file' = JsonDump(data')]_vars

C18_Witness ==
  /\ running /\ last.op = "create" /\ last.written = <<"write_failed", "ok">>
  /\ file = JsonDump(data)
  /\ data.accounts = <<Default, cash>> /\ data.current_account = cash
  /\ account_list = data.accounts /\ selected = 1

\* s is a prefix of t
IsPrefix(s, t) == Len(s) <= Len(t) /\ SubSeq(t, 1, Len(s)) = s

\* C19: every step keeps accounts as a prefix of the accounts it leaves and
\* keeps every entry of the expenses mapping, so both hold between any earlier
\* and any later state.
C19_AccountsAppendOnly ==
  [][/\ IsPrefix(data.accounts, data'.accounts)
     /\ DOMAIN data.expenses \subseteq DOMAIN data'.expenses]_vars

C19_Witness ==
  /\ running /\ last.op = "delete" /\ last.saves = 1
  /\ data.accounts = <<Cash, cash>>
  /\ DOMAIN data.expenses = {Default, Cash, cash}
  /\ data.expenses[Cash] = <<>>

\* C20: in every state of a running window the dropdown lists accounts in
\* order and its selected position holds current_account.
C20_DropdownInSync ==
  running =>
    /\ account_list = data.accounts
    /\ 0 <= selected /\ selected < Len(data.accounts)
    /\ data.accounts[selected + 1] = data.current_account
    /\ account_list[selected + 1] = data.current_account

C20_Witness ==
  /\ running /\ last.op = "startup"
  /\ account_list = <<Default, Cash>> /\ selected = 1
  /\ data.current_account = Cash /\ Len(rows) = 1

====
